---- MODULE Spec2Model ----
(***************************************************************************)
(* A model of the code-execution sandbox of smolagentsjs:                  *)
(*   src/src/smolagentsjs/local_nodejs_executor.js  (evaluateCode,         *)
(*       createSecureRequire, LocalNodeInterpreter)                        *)
(*   src/src/smolagentsjs/utils.js                  (truncateContent)      *)
(*                                                                         *)
(* JavaScript values are tuples of strings, <<tag, ...>>, so that any two  *)
(* values can be compared.  A JavaScript string is <<"str">> followed by   *)
(* its characters.  Objects are functions over a fixed universe of         *)
(* property names whose value is Absent where the object has no such own   *)
(* property.                                                               *)
(***************************************************************************)
EXTENDS Integers, Sequences, FiniteSets, TLC

VARIABLES
    state,              \* this.state of every session                (line 163)
    authorizedImports,  \* this.authorizedImports of every session    (line 165)
    staticTools,        \* this.staticTools of every session          (line 170)
    customTools,        \* this.customTools of every session          (line 162)
    toolsGiven,         \* the tools argument of every constructor    (line 161)
    additionalGiven,    \* the additionalAuthorizedImports argument   (line 161)
    agentToolbox,       \* names of the tools in a CodeAgent's toolbox
    agentManaged,       \* names of a CodeAgent's managed agents
    hostPatched,        \* members of the host's built-in objects that code
                        \* run in the sandbox has replaced or added
    globalDefined,      \* the sandbox object of the call has the property g
    callerVariables,    \* the object a caller passes as additionalVariables
    toolProps,          \* own properties of the caller's function that is
                        \* passed as the tool named "state"
    pc,                 \* where the one thread of the host is
    cur,                \* the session whose __call__ runs or ran last
    output,             \* outputCapturer.output of the call          (line 79)
    completion,         \* completion value of the script so far
    nStmts,             \* statements of the submitted code executed so far
    elapsed,            \* seconds the script has been inside an endless loop
    result,             \* output returned by __call__                (line 193)
    logs,               \* logs returned by __call__                  (line 193)
    evalThrown,         \* value evaluateCode throws to __call__
    error,              \* value the promise of __call__ rejects with
    lastStmt,           \* history: the last statement executed
    lastExpr,           \* history: the last expression statement completed
    stateBefore,        \* history: this.state before line 177
    extraVars,          \* history: additionalVariables of the call
    tcContent,          \* truncateContent: argument content
    tcMaxLength,        \* truncateContent: argument maxLength
    tcResult,           \* truncateContent: returned value
    tcDone,             \* truncateContent: has returned
    tcAgain,            \* truncateContent: value returned for the result
    tcAgainDone,        \* truncateContent: has returned for the result
    vParams,            \* validateToolAttributes: parameters of cls's constructor
    vNamed,             \* validateToolAttributes: cls.toString() has a class name
    vBody,              \* validateToolAttributes: members of cls's class body
    vErrors,            \* validateToolAttributes: kinds of the errors collected
    vDone,              \* validateToolAttributes: has returned or thrown
    agent,              \* MultiStepAgent: maxIterations, planningInterval and
                        \* what the calls of each iteration do
    run                 \* directRun, streamRun: locals, position, this.logs

vars == <<state, authorizedImports, staticTools, customTools, toolsGiven,
          additionalGiven, agentToolbox, agentManaged, hostPatched,
          globalDefined, callerVariables, toolProps, pc, cur, output, completion, nStmts,
          elapsed, result, logs, error, evalThrown,
          lastStmt, lastExpr, stateBefore, extraVars,
          tcContent, tcMaxLength, tcResult, tcDone, tcAgain, tcAgainDone,
          vParams, vNamed, vBody, vErrors, vDone, agent, run>>

sessionVars == <<state, authorizedImports, staticTools, customTools, toolsGiven,
                 additionalGiven, agentToolbox, agentManaged, hostPatched,
                 globalDefined, callerVariables, toolProps,
                 pc, cur, output, completion, nStmts, elapsed, result, logs,
                 error, evalThrown, lastStmt, lastExpr, stateBefore, extraVars>>

truncVars == <<tcContent, tcMaxLength, tcResult, tcDone, tcAgain, tcAgainDone>>

validateVars == <<vParams, vNamed, vBody, vErrors, vDone>>

runVars == <<agent, run>>

pureVars == <<truncVars, validateVars, runVars>>

hostVars == <<hostPatched, globalDefined, callerVariables>>

----------------------------------------------------------------------------
(* Bounds of the model *)

\* statements executed by one submitted code
MaxStmts == 2
\* seconds the clock is followed while a script loops
MaxElapsed == 7
\* longest content given to truncateContent
MaxTextLen == 4
\* largest maxLength given to truncateContent
MaxCap == 5
\* MAX_LEN_OUTPUT (50000, line 7) scaled down to the lengths of the texts
\* the modelled code can print
MAX_LEN_OUTPUT == 4

----------------------------------------------------------------------------
(* JavaScript values *)

Absent == <<"absent">>
Undefined == <<"undefined">>
None == <<"none">>
True == <<"bool", "true">>
Num(d) == <<"num", d>>
Str(t) == <<"str">> \o t
Module(m) == <<"module", m>>

Min(a, b) == IF a < b THEN a ELSE b
Max(a, b) == IF a > b THEN a ELSE b

\* { ...a, ...b } of two objects over one universe of property names
Spread(a, b) == [k \in DOMAIN a |-> IF b[k] # Absent THEN b[k] ELSE a[k]]

----------------------------------------------------------------------------
(* utils.js: truncateContent *)

\* String.prototype.slice(start, end) with JavaScript's relative indices
Slice(s, start, end) ==
    LET n == Len(s)
        from == IF start < 0 THEN Max(n + start, 0) ELSE Min(start, n)
        to == IF end < 0 THEN Max(n + end, 0) ELSE Min(end, n)
    IN  SubSeq(s, from + 1, to)

\* String.prototype.slice(start): end defaults to the length
SliceFrom(s, start) == Slice(s, start, Len(s))

\* the template literal of line 147; its tokens count as characters
TruncationMarker(maxLength) ==
    << "\n..._This content has been truncated to stay below ",
       ToString(maxLength),
       " characters_...\n" >>

truncateContent(content, maxLength) ==
    IF Len(content) <= maxLength
    THEN content
    ELSE LET halfLength == maxLength \div 2
         IN  Slice(content, 0, halfLength)
             \o TruncationMarker(maxLength)
             \o SliceFrom(content, 0 - halfLength)

----------------------------------------------------------------------------
(* local_nodejs_executor.js: module-level constants *)

BASE_BUILTIN_MODULES ==
    << "assert", "buffer", "events", "path", "querystring", "stream",
       "string_decoder", "timers", "url", "util" >>

BaseToolNames ==
    { "Number", "String", "Boolean", "Array", "Object", "Set", "Map", "Math",
      "isArray", "from", "keys", "values", "entries", "assign",
      "toLowerCase", "toUpperCase", "trim", "typeof", "instanceof",
      "parseInt", "parseFloat", "isNaN", "isFinite", "JSON" }

\* names the caller's tools map may use
ToolNames == { "getWeather", "trim", "state", "require", "console",
               "searchAgent" }

\* every name an object of bindings may hold
Names == { "console", "require", "state" } \cup BaseToolNames \cup ToolNames

\* the values bound in the sandbox
Capturer == <<"outputCapturer.console">>
Gate == <<"secureRequire">>
StateObj == <<"this.state">>
Builtin(n) == <<"builtin", n>>
Tool(n) == <<"tool", n>>

BASE_JS_TOOLS == [n \in Names |-> IF n \in BaseToolNames THEN Builtin(n) ELSE Absent]

\* the string a caller's tool returns (its documented output)
ToolOutput(n) == Str(<<"output of ", n>>)

\* the argument the modelled code passes to what it calls
CallArg == <<" ", "P", "a", "r", "i", "s">>

----------------------------------------------------------------------------
(* Errors.  A thrown value is <<kind>> \o message; the non-Error values the *)
(* sandboxed code can throw are <<"null">> and <<"hostile">>, an object     *)
(* whose message property is a getter that throws null.                    *)

ErrorKinds == { "InterpreterError", "Error", "ReferenceError", "TypeError",
                "SyntaxError" }

InterpreterError(message) == <<"InterpreterError">> \o message
JsError(kind, message) == <<kind>> \o message

\* error.message, read by host code: the message, or the value the read throws
ReadMessage(e) ==
    CASE e[1] \in ErrorKinds ->
           [ok |-> TRUE, val |-> Tail(e)]
      [] e[1] = "null" ->
           [ok |-> FALSE,
            val |-> JsError("TypeError",
                       <<"Cannot read properties of null (reading 'message')">>)]
      [] e[1] = "hostile" ->
           [ok |-> FALSE, val |-> <<"null">>]

\* what evaluateCode throws when the script threw e      (catch, lines 137-146)
EvaluateCodeCatch(e) ==
    IF e[1] = "InterpreterError"
    THEN e
    ELSE LET m == ReadMessage(e)
         IN  IF m.ok
             THEN InterpreterError(<<"Code execution failed: ">> \o m.val
                                   \o <<"\n    at line ", "unknown">>)
             ELSE m.val

\* what __call__ rejects with when evaluateCode threw e   (catch, lines 194-199)
CallCatch(e) ==
    IF e[1] = "InterpreterError"
    THEN e
    ELSE LET m == ReadMessage(e)
         IN  IF m.ok
             THEN InterpreterError(<<"Execution failed: ">> \o m.val)
             ELSE m.val

----------------------------------------------------------------------------
(* createSecureRequire and the LocalNodeInterpreter constructor *)

\* [...new Set(seq)]: first occurrences, in order
RECURSIVE Dedup(_)
Dedup(seq) ==
    IF seq = <<>>
    THEN <<>>
    ELSE LET front == Dedup(SubSeq(seq, 1, Len(seq) - 1))
             last == seq[Len(seq)]
         IN  IF \E i \in 1..Len(front) : front[i] = last
             THEN front
             ELSE Append(front, last)

Includes(seq, x) == \E i \in 1..Len(seq) : seq[i] = x

\* authorizedModules.join(', ')
RECURSIVE Join(_)
Join(seq) ==
    IF seq = <<>> THEN <<>>
    ELSE IF Len(seq) = 1 THEN seq
    ELSE <<seq[1], ", ">> \o Join(Tail(seq))

AuthorizedImportsKeepsDuplicates(additionalAuthorizedImports) ==
    BASE_BUILTIN_MODULES \o additionalAuthorizedImports

AuthorizedImportsOf(additionalAuthorizedImports) ==
    Dedup(BASE_BUILTIN_MODULES \o additionalAuthorizedImports)

StaticToolsBuiltinsOnly(tools) == BASE_JS_TOOLS

StaticToolsOf(tools) == Spread(tools, BASE_JS_TOOLS)

DeniedMessage(moduleName, authorizedModules) ==
    <<"Module '", moduleName, "' is not authorized. Allowed modules are: ">>
    \o Join(authorizedModules)

\* require(moduleName) of line 156.  The file is an ES module (lines 1-4) and
\* declares no require: the identifier is bound only where the host runtime
\* binds it (hostHasRequire).
HostRequire(moduleName, hostHasRequire) ==
    IF hostHasRequire
    THEN [ok |-> TRUE, val |-> Module(moduleName)]
    ELSE [ok |-> FALSE,
          val |-> JsError("ReferenceError", <<"require is not defined">>)]

\* authorizedModules.includes(moduleName) of line 151: the value returned
\* and the array afterwards.  The method is looked up on the host's
\* Array.prototype when the gate is called; sandboxed code reaches that
\* object through the Array of BASE_JS_TOOLS (line 30) and can have replaced
\* the method (patched) by
\*   function (m) { if (this.indexOf(m) < 0) this.push(m); return true }
IncludesCall(array, x, patched) ==
    IF "Array.prototype.includes" \in patched
    THEN [val |-> TRUE,
          array |-> IF Includes(array, x) THEN array ELSE Append(array, x)]
    ELSE [val |-> Includes(array, x), array |-> array]

\* secureRequire(moduleName): the value returned, or the value thrown, and
\* the authorizedModules array afterwards
SecureRequire(authorizedModules, moduleName, hostHasRequire, patched) ==
    LET inc == IncludesCall(authorizedModules, moduleName, patched)
        r == IF ~inc.val
             THEN [ok |-> FALSE,
                   val |-> InterpreterError(
                               DeniedMessage(moduleName, inc.array))]
             ELSE HostRequire(moduleName, hostHasRequire)
    IN  [ok |-> r.ok, val |-> r.val, array |-> inc.array]

----------------------------------------------------------------------------
(* evaluateCode: the sandbox object *)

NoBindings == [n \in Names |-> Absent]

\* { state: this.state, ...this.staticTools, ...this.customTools }
Context(s) ==
    Spread(Spread([NoBindings EXCEPT !["state"] = StateObj], staticTools[s]),
           customTools[s])

\* { console, require, ...BASE_JS_TOOLS, ...context }
Sandbox(s) ==
    Spread(Spread([NoBindings EXCEPT !["console"] = Capturer, !["require"] = Gate],
                  BASE_JS_TOOLS),
           Context(s))

\* the object that  state.k  reads and writes in the code of session s
StateIsSession(s) == Sandbox(s)["state"] = StateObj
StateTarget(s) == IF StateIsSession(s) THEN state[s] ELSE toolProps

\* context.state of evaluateCode (line 129) is the session's own object
ContextStateIsSession(s) == Context(s)["state"] = StateObj

----------------------------------------------------------------------------
(* Inputs: constructor arguments, extra variables and the submitted code *)

Sessions == { "A", "B" }

\* property names of the state objects
Keys == { "x", "printOutputs" }
NoProps == [k \in Keys |-> Absent]

\* the arguments of the two constructions: additionalAuthorizedImports and
\* the names of the tools
Setups ==
    { [additional |-> [s \in Sessions |-> <<>>],
       tools |-> [s \in Sessions |-> {}]],
      [additional |-> [s \in Sessions |-> IF s = "A" THEN <<"fs", "path">> ELSE <<>>],
       tools |-> [s \in Sessions |-> IF s = "A" THEN {"getWeather", "trim"} ELSE {}]],
      [additional |-> [s \in Sessions |-> <<>>],
       tools |-> [s \in Sessions |-> {"state"}]],
      [additional |-> [s \in Sessions |-> <<>>],
       tools |-> [s \in Sessions |-> IF s = "A" THEN {"require", "console"} ELSE {}]] }

\* the tools map given to the constructor, from the names it binds; the
\* caller's function of one name is one object wherever it is passed
ToolsMap(S) == [n \in Names |-> IF n \in S THEN Tool(n) ELSE Absent]

\* additionalVariables given to __call__
ExtraChoices ==
    { NoProps,
      [NoProps EXCEPT !["x"] = Num("3")],
      [NoProps EXCEPT !["printOutputs"] = Str(<<"o">>)] }

\* the statements submitted code is made of
LitValues == { "42" }
SetChoices == { <<"x", "1">>, <<"printOutputs", "1">> }
RequireChoices == { "path", "fs" }
CallNames == { "getWeather", "trim", "state" }
ThrowChoices == { "Error", "null", "hostile" }

\* what console.log('hi') writes to the stream
PrintText == <<"h", "i", "\n">>

\* what the sandboxed code throws
ThrownValue(kind) ==
    IF kind = "Error" THEN JsError("Error", <<"boom">>) ELSE <<kind>>

\* String(s).trim() of the built-in trim (line 51)
RECURSIVE TrimStart(_)
TrimStart(t) ==
    IF t # <<>> /\ Head(t) = " " THEN TrimStart(Tail(t)) ELSE t

RECURSIVE TrimEnd(_)
TrimEnd(t) ==
    IF t # <<>> /\ t[Len(t)] = " " THEN TrimEnd(SubSeq(t, 1, Len(t) - 1)) ELSE t

Trim(t) == TrimEnd(TrimStart(t))

\* a || '' of line 192
Falsy(v) == v \in { Absent, Undefined, Str(<<>>) }

----------------------------------------------------------------------------
(* The timeout in force while script.runInContext runs is the timeout      *)
(* option of its second argument.  Line 126 passes no second argument; the *)
(* timeout of line 121 is among the options of the vm.Script constructor,  *)
(* which has no such option.                                               *)

\* timeout: 5000 (line 121), in seconds
SCRIPT_TIMEOUT == 5

RunInContextTimeout == [set |-> FALSE, seconds |-> 0]

----------------------------------------------------------------------------
(* Initial state: both sessions constructed, nothing called *)

TruncateContentNotCalled ==
    /\ tcContent = <<>>
    /\ tcMaxLength = 0
    /\ tcResult = <<>>
    /\ tcDone = FALSE
    /\ tcAgain = <<>>
    /\ tcAgainDone = FALSE

ValidateNotCalled ==
    /\ vParams = <<>>
    /\ vNamed = TRUE
    /\ vBody = <<>>
    /\ vErrors = {}
    /\ vDone = FALSE

\* most iterations an agent is configured with
MaxIter == 3

Modes == { "direct", "stream" }

\* an entry of this.logs
Log(kind, iteration, e, actionOutput) ==
    [ kind |-> kind, iteration |-> iteration, error |-> e,
      actionOutput |-> actionOutput ]
NoLog == Log("none", 0, "none", "none")

\* a run before it is invoked
RunIdle ==
    [ pc |-> "idle", iteration |-> 0, finalAnswer |-> "null",
      stepLog |-> NoLog, logs |-> <<>>, calls |-> <<>>, cb |-> 1,
      steps |-> 0, provided |-> 0, yielded |-> <<>>, returned |-> "none",
      thrown |-> "none" ]

RunNotStarted ==
    /\ agent = [ maxIterations |-> 0, planningInterval |-> 0,
                 outcomes |-> [i \in 1..MaxIter |-> "null"] ]
    /\ run = [m \in Modes |-> RunIdle]

\* no caller keeps an object to pass as additionalVariables
NoCallerVariables == callerVariables = NoProps

InitCallLocals ==
    /\ pc = "idle"
    /\ hostPatched = {}
    /\ globalDefined = FALSE
    /\ cur = "A"
    /\ output = <<>>
    /\ completion = Undefined
    /\ nStmts = 0
    /\ elapsed = 0
    /\ result = None
    /\ logs = None
    /\ error = None
    /\ evalThrown = None
    /\ lastStmt = None
    /\ lastExpr = None
    /\ stateBefore = NoProps
    /\ extraVars = NoProps

\* new LocalNodeInterpreter(additionalAuthorizedImports, tools), twice
Constructed(additional, tools) ==
    /\ state = [s \in Sessions |-> NoProps]
    /\ customTools = [s \in Sessions |-> NoBindings]
    /\ authorizedImports = [s \in Sessions |-> AuthorizedImportsOf(additional[s])]
    /\ toolsGiven = [s \in Sessions |-> ToolsMap(tools[s])]
    /\ additionalGiven = additional
    /\ agentToolbox = {}
    /\ agentManaged = {}
    /\ staticTools = [s \in Sessions |-> StaticToolsOf(ToolsMap(tools[s]))]
    /\ toolProps = NoProps

Init ==
    /\ \E setup \in Setups : Constructed(setup.additional, setup.tools)
    /\ InitCallLocals
    /\ RunNotStarted
    /\ NoCallerVariables
    /\ TruncateContentNotCalled
    /\ ValidateNotCalled

----------------------------------------------------------------------------
(* LocalNodeInterpreter.__call__ and evaluateCode, step by step.  The host *)
(* has one thread and neither function awaits: a call runs from line 177   *)
(* to its return or throw before any other call starts.                    *)

constructorVars == <<authorizedImports, staticTools, customTools, toolsGiven,
                     additionalGiven, agentToolbox, agentManaged>>
returnVars == <<result, logs>>

Running == pc = "running" /\ nStmts < MaxStmts

\* the script, the catch of evaluateCode and the catch of __call__
Throws(e) ==
    /\ pc' = "threw"
    /\ evalThrown' = EvaluateCodeCatch(e)
    /\ error' = CallCatch(EvaluateCodeCatch(e))

\* the completion value of a script is the value of the expression statement
\* evaluated last
CompletionKeepsFirst(previous, v) == IF previous = Undefined THEN v ELSE previous

CompletionAfter(previous, v) == v

\* an expression statement completes with value v
Completes(stmt, v) ==
    /\ completion' = CompletionAfter(completion, v)
    /\ lastExpr' = stmt
    /\ UNCHANGED <<pc, error, evalThrown>>

Executed(stmt) ==
    /\ nStmts' = nStmts + 1
    /\ lastStmt' = stmt

\* { ...this.state, ...additionalVariables }
MergeStateResets(sessionState, additionalVariables) ==
    Spread(NoProps, additionalVariables)

MergeStateKeepsOld(sessionState, additionalVariables) ==
    Spread(additionalVariables, sessionState)

MergeState(sessionState, additionalVariables) ==
    Spread(sessionState, additionalVariables)

\* no constructor has run for session s: it has no fields
Unconstructed(s) == staticTools[s] = NoBindings

NoSessionYet ==
    /\ state = [s \in Sessions |-> NoProps]
    /\ customTools = [s \in Sessions |-> NoBindings]
    /\ authorizedImports = [s \in Sessions |-> <<>>]
    /\ staticTools = [s \in Sessions |-> NoBindings]
    /\ toolProps = NoProps

\* __call__ is an async function whose body (lines 177-199) has no await,
\* and evaluateCode is synchronous: once invoked, the body runs to its
\* return or throw before the host's one thread runs anything else, also
\* when the caller has not awaited the promise of an earlier call.  A call
\* is invoked only while no body is running.
HostThreadAlwaysFree == TRUE

HostThreadFree == pc \in { "idle", "returned", "threw" }

\* line 177
Call(s, additionalVariables) ==
    /\ HostThreadFree
    /\ ~Unconstructed(s)
    /\ state' = [state EXCEPT ![s] = MergeState(state[s], additionalVariables)]
    /\ pc' = "merged"
    /\ cur' = s
    /\ stateBefore' = state[s]
    /\ extraVars' = additionalVariables
    /\ completion' = Undefined
    /\ nStmts' = 0
    /\ elapsed' = 0
    /\ result' = None
    /\ logs' = None
    /\ error' = None
    /\ evalThrown' = None
    /\ lastStmt' = None
    /\ lastExpr' = None
    /\ UNCHANGED <<constructorVars, toolProps, output>>
    /\ UNCHANGED <<pureVars, hostVars>>

\* new OutputCapturer() (line 99): this.output = '' (line 79)
NewCapturerOutput(previous) == <<>>

\* lines 99-123: the capturer, a new sandbox object and its context, new
\* vm.Script
Compile(parses) ==
    /\ pc = "merged"
    /\ output' = NewCapturerOutput(output)
    /\ stateBefore' = NoProps
    /\ extraVars' = NoProps
    /\ IF parses
       THEN /\ pc' = "running"
            /\ UNCHANGED <<error, evalThrown>>
       ELSE Throws(JsError("SyntaxError", <<"Unexpected token">>))
    /\ globalDefined' = FALSE
    /\ UNCHANGED <<state, toolProps, cur, completion, nStmts, elapsed, result,
                   logs, lastStmt, lastExpr, hostPatched, callerVariables>>
    /\ UNCHANGED constructorVars
    /\ UNCHANGED pureVars

\* 42
StmtLit(d) ==
    /\ Running
    /\ Executed(<<"lit", d>>)
    /\ Completes(<<"lit", d>>, Num(d))
    /\ UNCHANGED <<state, toolProps, cur, output, elapsed, stateBefore,
                   extraVars>>
    /\ UNCHANGED <<constructorVars, returnVars, pureVars, hostVars>>

\* console.log('hi')
StmtPrint ==
    /\ Running
    /\ Executed(<<"print">>)
    /\ IF Sandbox(cur)["console"] = Capturer
       THEN /\ output' = output \o PrintText
            /\ Completes(<<"print">>, Undefined)
       ELSE /\ Throws(JsError("TypeError", <<"console.log is not a function">>))
            /\ UNCHANGED <<output, completion, lastExpr>>
    /\ UNCHANGED <<state, toolProps, cur, elapsed, stateBefore, extraVars>>
    /\ UNCHANGED <<constructorVars, returnVars, pureVars, hostVars>>

\* state.k = d
StmtSet(k, d) ==
    /\ Running
    /\ Executed(<<"set", k, d>>)
    /\ Completes(<<"set", k, d>>, Num(d))
    /\ IF StateIsSession(cur)
       THEN /\ state' = [state EXCEPT ![cur][k] = Num(d)]
            /\ UNCHANGED toolProps
       ELSE /\ toolProps' = [toolProps EXCEPT ![k] = Num(d)]
            /\ UNCHANGED state
    /\ UNCHANGED <<cur, output, elapsed, stateBefore, extraVars>>
    /\ UNCHANGED <<constructorVars, returnVars, pureVars, hostVars>>

\* delete state.k
StmtDelete(k) ==
    /\ Running
    /\ Executed(<<"delete", k>>)
    /\ Completes(<<"delete", k>>, True)
    /\ IF StateIsSession(cur)
       THEN /\ state' = [state EXCEPT ![cur][k] = Absent]
            /\ UNCHANGED toolProps
       ELSE /\ toolProps' = [toolProps EXCEPT ![k] = Absent]
            /\ UNCHANGED state
    /\ UNCHANGED <<cur, output, elapsed, stateBefore, extraVars>>
    /\ UNCHANGED <<constructorVars, returnVars, pureVars, hostVars>>

\* the value of the expression  state.k
ReadProp(obj, k) == IF obj[k] = Absent THEN Undefined ELSE obj[k]

\* state.k
StmtGet(k) ==
    /\ Running
    /\ Executed(<<"get", k>>)
    /\ Completes(<<"get", k>>, ReadProp(StateTarget(cur), k))
    /\ UNCHANGED <<state, toolProps, cur, output, elapsed, stateBefore,
                   extraVars>>
    /\ UNCHANGED <<constructorVars, returnVars, pureVars, hostVars>>

\* what calling the value bound to a name gives: returned (ok) or thrown
Invoke(n, binding, arg) ==
    CASE binding = Absent ->
           [ok |-> FALSE, val |-> JsError("ReferenceError", <<n, " is not defined">>)]
      [] binding[1] = "tool" ->
           [ok |-> TRUE, val |-> ToolOutput(binding[2])]
      [] binding = Builtin("trim") ->
           [ok |-> TRUE, val |-> Str(Trim(arg))]
      [] OTHER ->
           [ok |-> FALSE, val |-> JsError("TypeError", <<n, " is not a function">>)]

\* require('m')
StmtRequire(m, hostHasRequire) ==
    /\ Running
    /\ Executed(<<"require", m>>)
    /\ IF Sandbox(cur)["require"] = Gate
       THEN LET r == SecureRequire(authorizedImports[cur], m, hostHasRequire,
                                   hostPatched)
            IN  /\ authorizedImports' = [authorizedImports EXCEPT ![cur] = r.array]
                /\ IF r.ok
                   THEN Completes(<<"require", m>>, r.val)
                   ELSE /\ Throws(r.val)
                        /\ UNCHANGED <<completion, lastExpr>>
       ELSE LET r == Invoke("require", Sandbox(cur)["require"], <<m>>)
            IN  /\ UNCHANGED authorizedImports
                /\ IF r.ok
                   THEN Completes(<<"require", m>>, r.val)
                   ELSE /\ Throws(r.val)
                        /\ UNCHANGED <<completion, lastExpr>>
    /\ UNCHANGED <<state, toolProps, cur, output, elapsed, stateBefore,
                   extraVars>>
    /\ UNCHANGED <<staticTools, customTools, toolsGiven, additionalGiven,
                   agentToolbox, agentManaged>>
    /\ UNCHANGED <<returnVars, pureVars, hostVars>>

\* n(" Paris")
StmtCall(n) ==
    /\ Running
    /\ Executed(<<"call", n>>)
    /\ LET r == Invoke(n, Sandbox(cur)[n], CallArg)
       IN  IF r.ok
           THEN Completes(<<"call", n>>, r.val)
           ELSE /\ Throws(r.val)
                /\ UNCHANGED <<completion, lastExpr>>
    /\ UNCHANGED <<state, toolProps, cur, output, elapsed, stateBefore,
                   extraVars>>
    /\ UNCHANGED <<constructorVars, returnVars, pureVars, hostVars>>

\* throw new Error('boom'); throw null; throw { get message() { throw null } }
StmtThrow(kind) ==
    /\ Running
    /\ Executed(<<"throw", kind>>)
    /\ Throws(ThrownValue(kind))
    /\ UNCHANGED <<state, toolProps, cur, output, completion, elapsed, lastExpr,
                   stateBefore, extraVars>>
    /\ UNCHANGED <<constructorVars, returnVars, pureVars, hostVars>>

\* let y = 1: a declaration has no completion value
StmtDecl ==
    /\ Running
    /\ Executed(<<"decl">>)
    /\ UNCHANGED <<state, toolProps, pc, cur, output, completion, elapsed, error, evalThrown,
                   lastExpr, stateBefore, extraVars>>
    /\ UNCHANGED <<constructorVars, returnVars, pureVars, hostVars>>

\* while (true) {}
StmtLoop ==
    /\ Running
    /\ Executed(<<"loop">>)
    /\ pc' = "looping"
    /\ elapsed' = 0
    /\ UNCHANGED <<state, toolProps, cur, output, completion, error, evalThrown, lastExpr,
                   stateBefore, extraVars>>
    /\ UNCHANGED <<constructorVars, returnVars, pureVars, hostVars>>

\* a second passes while the script loops
Tick ==
    /\ pc = "looping"
    /\ elapsed < MaxElapsed
    /\ IF RunInContextTimeout.set /\ elapsed + 1 >= RunInContextTimeout.seconds
       THEN /\ Throws(JsError("Error", <<"Script execution timed out after 5000ms">>))
            /\ UNCHANGED elapsed
       ELSE /\ elapsed' = elapsed + 1
            /\ UNCHANGED <<pc, error, evalThrown>>
    /\ UNCHANGED <<state, toolProps, cur, output, completion, nStmts, lastStmt,
                   lastExpr, stateBefore, extraVars>>
    /\ UNCHANGED <<constructorVars, returnVars, pureVars, hostVars>>

\* this.state.printOutputs || ''  (line 192)
LogsOf(sessionState) ==
    IF Falsy(sessionState["printOutputs"])
    THEN Str(<<>>)
    ELSE sessionState["printOutputs"]

\* the script ran to its end: lines 129-136 and 192-193
Finish ==
    /\ pc = "running"
    /\ LET printOutputs == Str(truncateContent(output, MAX_LEN_OUTPUT))
       IN  IF Context(cur)["state"] = Absent
           THEN UNCHANGED <<state, toolProps>>
           ELSE IF ContextStateIsSession(cur)
           THEN /\ state' = [state EXCEPT ![cur]["printOutputs"] = printOutputs]
                /\ UNCHANGED toolProps
           ELSE /\ toolProps' = [toolProps EXCEPT !["printOutputs"] = printOutputs]
                /\ UNCHANGED state
    /\ result' = completion
    /\ logs' = LogsOf(state'[cur])
    /\ pc' = "returned"
    /\ UNCHANGED <<cur, output, completion, nStmts, elapsed, error, evalThrown, lastStmt,
                   lastExpr, stateBefore, extraVars>>
    /\ UNCHANGED <<constructorVars, pureVars, hostVars>>

Next ==
    \/ \E s \in Sessions, x \in ExtraChoices : Call(s, x)
    \/ \E parses \in BOOLEAN : Compile(parses)
    \/ \E d \in LitValues : StmtLit(d)
    \/ StmtPrint
    \/ \E c \in SetChoices : StmtSet(c[1], c[2])
    \/ StmtDelete("x")
    \/ \E k \in Keys : StmtGet(k)
    \/ \E m \in RequireChoices, h \in BOOLEAN : StmtRequire(m, h)
    \/ \E n \in CallNames : StmtCall(n)
    \/ \E kind \in ThrowChoices : StmtThrow(kind)
    \/ StmtDecl
    \/ StmtLoop
    \/ Tick
    \/ Finish

Spec == Init /\ [][Next]_vars

----------------------------------------------------------------------------
(* Code that defines globals and that writes to the built-in objects.  The *)
(* sandbox object is a new object literal in every call (line 102), whose  *)
(* prototype is the host's Object.prototype; the values of BASE_JS_TOOLS   *)
(* (lines 25-68) are the host's own Array, Object, ... and one JSON object *)
(* made when the file is loaded, all passed by reference into every        *)
(* sandbox of every session.                                               *)

\* members of the built-in objects the modelled code assigns to
Patches == { "Array.prototype.includes", "JSON.parse", "Object.prototype.g" }

\* the value of the assignment expression
PatchValue(member) ==
    IF member = "Object.prototype.g" THEN Num("1") ELSE <<"function", member>>

\* the identifier g resolves: an own property of the sandbox object, or a
\* property found on its prototype chain
GlobalResolves == globalDefined \/ "Object.prototype.g" \in hostPatched

\* JSON.parse('7'): the parse of line 65, or the function put in its place,
\* () => 0
JsonParse(patched) == IF "JSON.parse" \in patched THEN Num("0") ELSE Num("7")

\* g = 1
StmtAssignGlobal ==
    /\ Running
    /\ Executed(<<"assignGlobal">>)
    /\ Completes(<<"assignGlobal">>, Num("1"))
    /\ globalDefined' = TRUE
    /\ UNCHANGED <<state, toolProps, cur, output, elapsed, stateBefore,
                   extraVars, hostPatched, callerVariables>>
    /\ UNCHANGED <<constructorVars, returnVars, pureVars>>

\* g
StmtReadGlobal ==
    /\ Running
    /\ Executed(<<"readGlobal">>)
    /\ IF GlobalResolves
       THEN Completes(<<"readGlobal">>, Num("1"))
       ELSE /\ Throws(JsError("ReferenceError", <<"g is not defined">>))
            /\ UNCHANGED <<completion, lastExpr>>
    /\ UNCHANGED <<state, toolProps, cur, output, elapsed, stateBefore,
                   extraVars>>
    /\ UNCHANGED <<constructorVars, returnVars, pureVars, hostVars>>

\* Array.prototype.includes = function (m) { ... }; JSON.parse = () => 0;
\* Object.prototype.g = 1
StmtPatch(member) ==
    /\ Running
    /\ Executed(<<"patch", member>>)
    /\ Completes(<<"patch", member>>, PatchValue(member))
    /\ hostPatched' = hostPatched \cup {member}
    /\ UNCHANGED <<state, toolProps, cur, output, elapsed, stateBefore,
                   extraVars, globalDefined, callerVariables>>
    /\ UNCHANGED <<constructorVars, returnVars, pureVars>>

\* JSON.parse('7')
StmtParse ==
    /\ Running
    /\ Executed(<<"parse">>)
    /\ Completes(<<"parse">>, JsonParse(hostPatched))
    /\ UNCHANGED <<state, toolProps, cur, output, elapsed, stateBefore,
                   extraVars>>
    /\ UNCHANGED <<constructorVars, returnVars, pureVars, hostVars>>

\* sessions whose tools leave console, require and state alone
HostSetups ==
    { setup \in Setups :
        \A s \in Sessions :
            setup.tools[s] \cap { "console", "require", "state" } = {} }

InitHost ==
    /\ \E setup \in HostSetups : Constructed(setup.additional, setup.tools)
    /\ InitCallLocals
    /\ RunNotStarted
    /\ NoCallerVariables
    /\ TruncateContentNotCalled
    /\ ValidateNotCalled

NextHost ==
    \/ \E s \in Sessions : Call(s, NoProps)
    \/ \E parses \in BOOLEAN : Compile(parses)
    \/ StmtAssignGlobal
    \/ StmtReadGlobal
    \/ \E member \in Patches : StmtPatch(member)
    \/ StmtParse
    \/ \E h \in BOOLEAN : StmtRequire("fs", h)
    \/ Finish

SpecHost == InitHost /\ [][NextHost]_vars

----------------------------------------------------------------------------
(* A caller that keeps one object and passes it as additionalVariables on  *)
(* every call, as CodeAgent.step passes this.state (agents.js, line 1021)  *)

\* line 177 evaluates an object literal: this.state becomes a new object,
\* never the object given as additionalVariables
StateIsGivenObject == FALSE

StateIsNewObject == TRUE

\* what the caller's object holds
ExtraVariablesObject ==
    IF StateIsNewObject THEN callerVariables ELSE state[cur]

InitCaller ==
    /\ \E setup \in Setups : Constructed(setup.additional, setup.tools)
    /\ InitCallLocals
    /\ RunNotStarted
    /\ callerVariables \in ExtraChoices
    /\ TruncateContentNotCalled
    /\ ValidateNotCalled

NextCaller ==
    \/ \E s \in Sessions : Call(s, callerVariables)
    \/ \E parses \in BOOLEAN : Compile(parses)
    \/ StmtPrint
    \/ \E c \in SetChoices : StmtSet(c[1], c[2])
    \/ StmtDelete("x")
    \/ \E k \in Keys : StmtGet(k)
    \/ StmtThrow("Error")
    \/ Finish

SpecCaller == InitCaller /\ [][NextCaller]_vars

----------------------------------------------------------------------------
(* truncateContent alone, on every content and maxLength within the bounds *)

Alphabet == { "a", "b" }
Texts == UNION { [1..n -> Alphabet] : n \in 0..MaxTextLen }

InitTrunc ==
    /\ Constructed([s \in Sessions |-> <<>>], [s \in Sessions |-> {}])
    /\ InitCallLocals
    /\ RunNotStarted
    /\ NoCallerVariables
    /\ tcContent \in Texts
    /\ tcMaxLength \in 1..MaxCap
    /\ tcResult = <<>>
    /\ tcDone = FALSE
    /\ tcAgain = <<>>
    /\ tcAgainDone = FALSE
    /\ ValidateNotCalled

Truncate ==
    /\ ~tcDone
    /\ tcResult' = truncateContent(tcContent, tcMaxLength)
    /\ tcDone' = TRUE
    /\ UNCHANGED <<tcContent, tcMaxLength, tcAgain, tcAgainDone>>
    /\ UNCHANGED <<sessionVars, validateVars, runVars>>

\* truncateContent(truncateContent(content, maxLength), maxLength)
TruncateAgain ==
    /\ tcDone
    /\ ~tcAgainDone
    /\ tcAgain' = truncateContent(tcResult, tcMaxLength)
    /\ tcAgainDone' = TRUE
    /\ UNCHANGED <<tcContent, tcMaxLength, tcResult, tcDone>>
    /\ UNCHANGED <<sessionVars, validateVars, runVars>>

NextTrunc == Truncate \/ TruncateAgain

SpecTrunc == InitTrunc /\ [][NextTrunc]_vars

----------------------------------------------------------------------------
(* The constructor alone, on every pair of argument lists within the bounds *)

\* longest additionalAuthorizedImports given to a constructor
MaxAdditional == 3

\* module names a caller may add: one outside the base list, one inside it
AdditionalNames == { "fs", "path" }
AdditionalChoices == UNION { [1..n -> AdditionalNames] : n \in 0..MaxAdditional }

\* the tools maps a caller may give
ToolsChoices == { {}, {"getWeather", "trim"} }

\* before new LocalNodeInterpreter(...): the arguments are chosen, the
\* sessions have no fields yet
InitNew ==
    /\ additionalGiven \in [Sessions -> AdditionalChoices]
    /\ \E tools \in ToolsChoices : toolsGiven = [s \in Sessions |-> ToolsMap(tools)]
    /\ agentToolbox = {}
    /\ agentManaged = {}
    /\ NoSessionYet
    /\ InitCallLocals
    /\ RunNotStarted
    /\ NoCallerVariables
    /\ TruncateContentNotCalled
    /\ ValidateNotCalled

\* new LocalNodeInterpreter(additionalGiven[s], toolsGiven[s])  (lines 161-174)
New(s) ==
    /\ Unconstructed(s)
    /\ customTools' = [customTools EXCEPT ![s] = NoBindings]
    /\ state' = [state EXCEPT ![s] = NoProps]
    /\ authorizedImports' =
          [authorizedImports EXCEPT ![s] = AuthorizedImportsOf(additionalGiven[s])]
    /\ staticTools' = [staticTools EXCEPT ![s] = StaticToolsOf(toolsGiven[s])]
    /\ UNCHANGED <<toolsGiven, additionalGiven, agentToolbox, agentManaged,
                   hostVars, toolProps, pc, cur, output, completion, nStmts,
                   elapsed, result, logs, error, evalThrown, lastStmt,
                   lastExpr, stateBefore, extraVars>>
    /\ UNCHANGED pureVars

NextNew == \E s \in Sessions : New(s)

SpecNew == InitNew /\ [][NextNew]_vars

----------------------------------------------------------------------------
(* agents.js: the interpreter session of a CodeAgent (lines 947-967).  The *)
(* agent's session is session A.                                           *)

\* what the agent is given: tools for its toolbox, managed agents
AgentToolNames == { "getWeather" }
AgentManagedNames == { "searchAgent" }

\* a Tool object (tools.js, lines 32-111) and a ManagedAgent object
\* (agents.js, lines 1063-1129): objects with a __call__ method, not functions
ToolInstance(n) == <<"Tool", n>>
ManagedAgentInstance(n) == <<"ManagedAgent", n>>

\* this.toolbox.tools: the Map of Toolbox, name -> Tool   (tools.js, 141-175)
ToolboxEntries(toolNames) ==
    [n \in Names |-> IF n \in toolNames THEN ToolInstance(n) ELSE Absent]

\* this.managedAgents: a plain object, name -> agent     (agents.js, 99-104)
ManagedAgentsObject(agentNames) ==
    [n \in Names |-> IF n \in agentNames THEN ManagedAgentInstance(n) ELSE Absent]

\* the own enumerable properties that { ...map } copies from a Map: its
\* entries are kept in an internal slot, it has no such properties
SpreadOfMap(entries) == NoBindings

\* the own enumerable properties of a plain object: all of them
SpreadOfObject(object) == object

\* allTools of lines 952-955
AllTools(toolNames, agentNames) ==
    Spread(Spread(NoBindings, SpreadOfMap(ToolboxEntries(toolNames))),
           SpreadOfObject(ManagedAgentsObject(agentNames)))

InitAgent ==
    /\ agentToolbox \in SUBSET AgentToolNames
    /\ agentManaged \in SUBSET AgentManagedNames
    /\ additionalGiven = [s \in Sessions |-> <<>>]
    /\ toolsGiven = [s \in Sessions |-> NoBindings]
    /\ NoSessionYet
    /\ InitCallLocals
    /\ RunNotStarted
    /\ NoCallerVariables
    /\ TruncateContentNotCalled
    /\ ValidateNotCalled

\* new CodeAgent({tools, managedAgents}) without useE2bExecutor: lines 952-967
NewCodeAgent ==
    /\ Unconstructed("A")
    /\ LET allTools == AllTools(agentToolbox, agentManaged)
       IN  /\ toolsGiven' = [toolsGiven EXCEPT !["A"] = allTools]
           /\ staticTools' = [staticTools EXCEPT !["A"] = StaticToolsOf(allTools)]
    /\ customTools' = [customTools EXCEPT !["A"] = NoBindings]
    /\ state' = [state EXCEPT !["A"] = NoProps]
    /\ authorizedImports' =
          [authorizedImports EXCEPT !["A"] = AuthorizedImportsOf(additionalGiven["A"])]
    /\ UNCHANGED <<additionalGiven, agentToolbox, agentManaged, hostVars,
                   toolProps, pc, cur, output, completion, nStmts, elapsed,
                   result, logs, error, evalThrown, lastStmt, lastExpr,
                   stateBefore, extraVars>>
    /\ UNCHANGED pureVars

\* the code the agent executes calls its tools and agents by name
NextAgent ==
    \/ NewCodeAgent
    \/ \E x \in ExtraChoices : Call("A", x)
    \/ \E parses \in BOOLEAN : Compile(parses)
    \/ \E n \in AgentToolNames \cup AgentManagedNames : StmtCall(n)
    \/ \E d \in LitValues : StmtLit(d)
    \/ StmtPrint
    \/ Finish

SpecAgent == InitAgent /\ [][NextAgent]_vars

----------------------------------------------------------------------------
(* tool_validation.js: validateToolAttributes, the check of the            *)
(* constructor (lines 100-124, 164-171)                                    *)

\* most parameters a constructor declares
MaxParams == 4

\* a parameter is a plain identifier, has a default value, or is a rest
\* parameter, which only the last can be
ParamKinds == { "plain", "default", "rest" }
ParamLists ==
    { params \in UNION { [1..n -> ParamKinds] : n \in 0..MaxParams } :
        \A i \in 1..Len(params) : params[i] = "rest" => i = Len(params) }

\* Function.prototype.length: the parameters before the first one that has a
\* default value or is a rest parameter
RECURSIVE FunctionLength(_)
FunctionLength(params) ==
    IF params = <<>> \/ Head(params) # "plain"
    THEN 0
    ELSE 1 + FunctionLength(Tail(params))

\* ctor !== Object && ctor.length > 1 (line 120); cls.prototype.constructor
\* of a class is the class, never Object
CtorReported(params) == FunctionLength(params) > 1

\* an AST node of an initializer: its type and, for an array or an object,
\* the element nodes or the nodes of the properties' values
Node(type, elements) == [type |-> type, elements |-> elements]
Literal == Node("Literal", <<>>)
CallExpression == Node("CallExpression", <<>>)
UnaryExpression == Node("UnaryExpression", <<>>)
ArrayExpression(elements) == Node("ArrayExpression", elements)
ObjectExpression(values) == Node("ObjectExpression", values)
\* p.value of a spread property  {...other} , which has no value
NoValue == Node("undefined", <<>>)
\* node.value of a field declared without an initializer
NullNode == Node("null", <<>>)

\* isSimpleLiteral(node) (lines 178-184): "true", "false", or "TypeError" when
\* node.type is read of undefined; every() stops at the first element that
\* is not simple and lets an exception through
RECURSIVE isSimpleLiteral(_), Every(_)
Every(nodes) ==
    IF nodes = <<>>
    THEN "true"
    ELSE LET r == isSimpleLiteral(Head(nodes))
         IN  IF r = "true" THEN Every(Tail(nodes)) ELSE r

isSimpleLiteral(node) ==
    IF node.type = "undefined" THEN "TypeError"
    ELSE IF node.type = "Literal" THEN "true"
    ELSE IF node.type \in { "ArrayExpression", "ObjectExpression" }
         THEN Every(node.elements)
    ELSE "false"

\* JavaScript built-in globals (lines 11-17)
BUILTIN_NAMES ==
    { "Object", "Function", "Array", "Number", "String", "Boolean", "Symbol",
      "Date", "RegExp", "Error", "Math", "JSON", "console", "undefined",
      "parseInt", "parseFloat", "isNaN", "isFinite", "encodeURI", "decodeURI",
      "encodeURIComponent", "decodeURIComponent", "Map", "Set", "WeakMap",
      "WeakSet", "Promise", "Proxy", "Reflect", "BigInt", "Intl" }

\* BASE_BUILTIN_MODULES of utils.js, the list tool_validation.js imports
UTILS_BASE_BUILTIN_MODULES ==
    { "collections", "datetime", "itertools", "math", "queue", "random", "re",
      "stat", "statistics", "time", "unicodedata" }

\* a parameter of a method or an item of its body, in document order: a
\* reference to a name in expression position (type "Identifier") or a
\* declaration of a name (type "VariableDeclaration", id the type of decl.id)
Param(type, name) == [type |-> type, name |-> name]
Item(type, id, name) == [type |-> type, id |-> id, name |-> name]
Ref(name) == Item("Identifier", "", name)
Decl(id, name) == Item("VariableDeclaration", id, name)

\* a member of the class body: a field (PropertyDefinition) or a method
\* (MethodDefinition) of some kind
PropertyDefinition(static, keyType, name, value) ==
    [ node |-> "PropertyDefinition", static |-> static, keyType |-> keyType,
      name |-> name, value |-> value, kind |-> "", params |-> <<>>,
      body |-> <<>> ]
MethodDefinition(kind, name, params, body) ==
    [ node |-> "MethodDefinition", static |-> FALSE, keyType |-> "Identifier",
      name |-> name, value |-> NullNode, kind |-> kind, params |-> params,
      body |-> body ]

\* MethodChecker.visitParams (lines 42-50): argNames
visitParams(params) ==
    { params[i].name : i \in { j \in 1..Len(params) :
        params[j].type \in { "Identifier", "RestElement" } } }

isDefinedNameAcceptsAll(name, argNames, classAttributes, assignedNames) == TRUE

\* MethodChecker.isDefinedName (lines 80-91); imports and fromImports stay
\* empty and  this  is no Identifier node
isDefinedName(name, argNames, classAttributes, assignedNames) ==
    \/ name \in BUILTIN_NAMES
    \/ name \in UTILS_BASE_BUILTIN_MODULES
    \/ name \in argNames
    \/ name = "this"
    \/ name \in classAttributes
    \/ name \in assignedNames

\* the inner walk.simple (lines 148-151) over the items left of a method
\* body: visitIdentifier (68-73) reports a name not defined so far,
\* visitVariableDeclaration (56-62) records a name declared by an identifier
RECURSIVE MethodErrors(_, _, _, _)
MethodErrors(items, argNames, classAttributes, assignedNames) ==
    IF items = <<>>
    THEN {}
    ELSE LET item == Head(items)
         IN  IF item.type = "VariableDeclaration"
             THEN MethodErrors(Tail(items), argNames, classAttributes,
                      IF item.id = "Identifier"
                      THEN assignedNames \cup { item.name }
                      ELSE assignedNames)
             ELSE (IF isDefinedName(item.name, argNames, classAttributes,
                                    assignedNames)
                   THEN {}
                   ELSE { item.name })
                  \cup MethodErrors(Tail(items), argNames, classAttributes,
                                    assignedNames)

\* the state of the outer walk.simple (lines 127-128, 131-156)
WalkStart ==
    [ classAttributes |-> {}, complexAttributes |-> <<>>, errors |-> {},
      thrown |-> FALSE ]

\* the PropertyDefinition callback (lines 132-141)
VisitPropertyDefinition(node, w) ==
    IF node.static /\ node.keyType = "Identifier"
    THEN LET simple == IF node.value = NullNode
                       THEN "true"
                       ELSE isSimpleLiteral(node.value)
             added == [w EXCEPT !.classAttributes = @ \cup { node.name }]
         IN  IF simple = "TypeError"
             THEN [added EXCEPT !.thrown = TRUE]
             ELSE IF simple = "false" /\ ~Includes(w.complexAttributes, node.name)
             THEN [added EXCEPT !.complexAttributes = Append(@, node.name)]
             ELSE added
    ELSE w

\* the MethodDefinition callback (lines 143-155)
VisitMethodDefinition(node, w) ==
    IF node.kind = "method"
    THEN [w EXCEPT !.errors = @ \cup
            { <<"Name is undefined", node.name, n>> :
                n \in MethodErrors(node.body, visitParams(node.params),
                                   w.classAttributes, {}) }]
    ELSE w

\* walk.simple over the class body: the members in document order, up to the
\* first callback that throws
RECURSIVE WalkClassBody(_, _)
WalkClassBody(members, w) ==
    IF members = <<>> \/ w.thrown
    THEN w
    ELSE WalkClassBody(Tail(members),
            IF Head(members).node = "PropertyDefinition"
            THEN VisitPropertyDefinition(Head(members), w)
            ELSE VisitMethodDefinition(Head(members), w))

\* the errors validateToolAttributes collects; acorn parses cls.toString() as
\* a module, where a class without a name is no declaration and the parse
\* throws (lines 106-116); the catch (164-166) adds to what was collected
ValidationErrors(params, named, body) ==
    IF ~named
    THEN { <<"Failed to parse class">> }
    ELSE LET w == WalkClassBody(body, WalkStart)
         IN  (IF CtorReported(params)
              THEN { <<"additional args in constructor">> }
              ELSE {})
             \cup w.errors
             \cup (IF w.thrown
                   THEN { <<"Failed to parse class">> }
                   ELSE IF Len(w.complexAttributes) > 0
                   THEN { <<"Complex attributes">> \o w.complexAttributes }
                   ELSE {})

InitValidate ==
    /\ Constructed([s \in Sessions |-> <<>>], [s \in Sessions |-> {}])
    /\ InitCallLocals
    /\ RunNotStarted
    /\ NoCallerVariables
    /\ TruncateContentNotCalled
    /\ vParams \in ParamLists
    /\ vNamed \in BOOLEAN
    /\ vBody = <<>>
    /\ vErrors = {}
    /\ vDone = FALSE

\* validateToolAttributes(cls)
Validate ==
    /\ ~vDone
    /\ vErrors' = ValidationErrors(vParams, vNamed, vBody)
    /\ vDone' = TRUE
    /\ UNCHANGED <<vParams, vNamed, vBody>>
    /\ UNCHANGED <<sessionVars, truncVars, runVars>>

NextValidate == Validate

SpecValidate == InitValidate /\ [][NextValidate]_vars

----------------------------------------------------------------------------
(* tool_validation.js: validateToolAttributes, the walk over the class     *)
(* body (lines 126-162), and MethodChecker (lines 22-92)                   *)

\* most members a class body declares
MaxMembers == 2

\* initializers of a static field:  1 ,  f() ,  -1 ,  [1] ,  [f()] ,
\* {a: 1} ,  {a: [f()]} ,  {...o} , and none
Initializers ==
    { Literal, CallExpression, UnaryExpression,
      ArrayExpression(<<Literal>>), ArrayExpression(<<CallExpression>>),
      ObjectExpression(<<Literal>>),
      ObjectExpression(<<ArrayExpression(<<CallExpression>>)>>),
      ObjectExpression(<<NoValue>>), NullNode }

\* static LIMIT = ... ,  static #LIMIT = ... , and the instance field
\* LIMIT = f()
FieldChoices ==
    { PropertyDefinition(TRUE, keyType, "LIMIT", value) :
        keyType \in { "Identifier", "PrivateIdentifier" },
        value \in Initializers }
    \cup { PropertyDefinition(FALSE, "Identifier", "LIMIT", CallExpression) }

\* the parameters  () ,  (x) ,  (x = 1) ,  (...x)  and  ({x})
ParamChoices ==
    { <<>> } \cup
    { <<Param(type, "x")>> :
        type \in { "Identifier", "AssignmentPattern", "RestElement",
                   "ObjectPattern" } }

\* method bodies: a reference to the parameter, to the static field, to a
\* name nothing defines, to a built-in, to a module name; a local declared
\* before and after its use, and one declared by a destructuring pattern
BodyChoices ==
    { <<Ref("x")>>, <<Ref("LIMIT")>>, <<Ref("helper")>>, <<Ref("JSON")>>,
      <<Ref("math")>>,
      <<Decl("Identifier", "y"), Ref("y")>>,
      <<Ref("y"), Decl("Identifier", "y")>>,
      <<Decl("ObjectPattern", "y"), Ref("y")>> }

\* forward(...) { ... } ,  setup(...) { ... }  and the getters
\* get forward() { ... } ,  get setup() { ... }
MethodChoices ==
    { MethodDefinition("method", name, params, body) :
        name \in { "forward", "setup" }, params \in ParamChoices,
        body \in BodyChoices }
    \cup { MethodDefinition("get", name, <<>>, body) :
            name \in { "forward", "setup" }, body \in BodyChoices }

\* class bodies of up to MaxMembers members of different names
ClassBodies ==
    { body \in UNION { [1..n -> FieldChoices \cup MethodChoices] :
                        n \in 0..MaxMembers } :
        \A i, j \in 1..Len(body) : body[i].name = body[j].name => i = j }

InitMembers ==
    /\ Constructed([s \in Sessions |-> <<>>], [s \in Sessions |-> {}])
    /\ InitCallLocals
    /\ RunNotStarted
    /\ NoCallerVariables
    /\ TruncateContentNotCalled
    /\ vParams = <<>>
    /\ vNamed = TRUE
    /\ vBody \in ClassBodies
    /\ vErrors = {}
    /\ vDone = FALSE

SpecMembers == InitMembers /\ [][NextValidate]_vars

----------------------------------------------------------------------------
(* agents.js: MultiStepAgent.directRun (lines 513-562) and streamRun       *)
(* (lines 457-507), of two agents constructed alike and given the same     *)
(* task; the model's answers (what step, planningStep and                  *)
(* provideFinalAnswer do) are the same for both.  The run in streaming     *)
(* mode begins when the direct run has ended, and its consumer takes every *)
(* value the generator yields.                                             *)

\* this.stepCallbacks: the callbacks given to the constructor, then the
\* monitor's updateMetrics (lines 121-122)
StepCallbacks == << "first", "second", "updateMetrics" >>

\* this.planningInterval: null (0), or a number of iterations
PlanningIntervals == { 0, 1, 2 }

\* this.planningInterval && iteration % this.planningInterval === 0
Plans(planningInterval, iteration) ==
    planningInterval # 0 /\ iteration % planningInterval = 0

\* what an iteration's calls do: planningStep throws, or step throws,
\* returns null or returns an answer
Outcomes == { "planThrows", "throws", "null", "answer" }

\* the configurations and the outcomes of the iterations a run can reach
AgentChoices ==
    { a \in [ maxIterations : 0..MaxIter, planningInterval : PlanningIntervals,
              outcomes : [1..MaxIter -> Outcomes] ] :
        \A i \in 1..MaxIter :
            a.outcomes[i] = "planThrows" => Plans(a.planningInterval, i - 1) }

\* { iteration, startTime } (lines 463-466, 520-523)
NewStepLog(iteration) == Log("step", iteration, "none", "none")

\* the { plan, facts } entry planningStep pushes (lines 622-625, 683-686)
PlanLog(iteration) == Log("plan", iteration, "none", "none")

\* { error: new AgentMaxIterationsError(...) } (lines 491-493, 548-550)
MaxIterationsLog == Log("max", 0, "AgentMaxIterationsError", "none")

\* catch (e) { stepLog.error = e } (lines 475-476, 532-533)
CatchDropsError(stepLog, e) == stepLog

Catch(stepLog, e) == [stepLog EXCEPT !.error = e]

\* the condition of the while loop (lines 461, 518)
LoopContinues(finalAnswer, iteration, maxIterations) ==
    finalAnswer = "null" /\ iteration < maxIterations

\* the condition after the loop (lines 489, 546)
ReachedMaxNever(finalAnswer, iteration, maxIterations) == FALSE

ReachedMax(finalAnswer, iteration, maxIterations) ==
    finalAnswer = "null" /\ iteration = maxIterations

\* the identifier stepStartTime of lines 498 and 554 resolves:  directRun
\* declares it in the function body (line 516), streamRun with const inside
\* the loop's block (line 462), out of scope after the loop
StepStartTimeInScope(mode) == mode = "direct"

Ended(m) == run[m].pc \in { "returned", "threw" }

InitRun ==
    /\ \E setup \in HostSetups : Constructed(setup.additional, setup.tools)
    /\ InitCallLocals
    /\ NoCallerVariables
    /\ TruncateContentNotCalled
    /\ ValidateNotCalled
    /\ agent \in AgentChoices
    /\ run = [m \in Modes |-> RunIdle]

RunFrame == UNCHANGED <<agent, sessionVars, truncVars, validateVars>>

\* directRun(task), streamRun(task): lines 458-459, 514-516
Begin(m) ==
    /\ run[m].pc = "idle"
    /\ m = "stream" => Ended("direct")
    /\ run' = [run EXCEPT ![m].pc = "loop"]
    /\ RunFrame

\* the test of the while loop and, when it fails, of the if after it
Loop(m) ==
    /\ run[m].pc = "loop"
    /\ LET r == run[m]
       IN  run' = [run EXCEPT ![m] =
              IF LoopContinues(r.finalAnswer, r.iteration, agent.maxIterations)
              THEN [r EXCEPT !.stepLog = NewStepLog(r.iteration), !.pc = "try"]
              ELSE IF ReachedMax(r.finalAnswer, r.iteration, agent.maxIterations)
              THEN [r EXCEPT !.pc = "max"]
              ELSE [r EXCEPT !.pc = "return"]]
    /\ RunFrame

\* lines 469-471, 526-528: the planning step, when it is due
Planning(m) ==
    /\ run[m].pc = "try"
    /\ LET r == run[m]
       IN  run' = [run EXCEPT ![m] =
              IF ~Plans(agent.planningInterval, r.iteration)
              THEN [r EXCEPT !.pc = "step"]
              ELSE IF agent.outcomes[r.iteration + 1] = "planThrows"
              THEN [r EXCEPT !.stepLog = Catch(r.stepLog, "Error"),
                             !.pc = "finally"]
              ELSE [r EXCEPT !.logs = Append(r.logs, PlanLog(r.iteration)),
                             !.pc = "step"]]
    /\ RunFrame

\* finalAnswer = await this.step(stepLog)  (lines 474, 531)
Step(m) ==
    /\ run[m].pc = "step"
    /\ LET r == run[m]
           outcome == agent.outcomes[r.iteration + 1]
       IN  run' = [run EXCEPT ![m] =
              [r EXCEPT !.steps = r.steps + 1,
                        !.finalAnswer =
                            IF outcome = "answer" THEN "answer" ELSE "null",
                        !.stepLog = IF outcome = "throws"
                                    THEN Catch(r.stepLog, "Error")
                                    ELSE r.stepLog,
                        !.pc = "finally"]]
    /\ RunFrame

\* finally: this.logs.push(stepLog)  (lines 478-480, 535-538)
Finally(m) ==
    /\ run[m].pc = "finally"
    /\ run' = [run EXCEPT ![m].logs = Append(@, run[m].stepLog),
                          ![m].cb = 1,
                          ![m].pc = "callbacks"]
    /\ RunFrame

\* await callback(stepLog), of the step log or of the final one
\* (lines 481-483, 500-502, 539-541, 556-558)
Callback(m) ==
    /\ run[m].pc \in { "callbacks", "finalCallbacks" }
    /\ run[m].cb <= Len(StepCallbacks)
    /\ run' = [run EXCEPT
                 ![m].calls = Append(@, <<StepCallbacks[run[m].cb],
                                          run[m].logs[Len(run[m].logs)]>>),
                 ![m].cb = @ + 1]
    /\ RunFrame

\* iteration++, and in streaming mode  yield stepLog  (lines 484-485, 542)
EndIteration(m) ==
    /\ run[m].pc = "callbacks"
    /\ run[m].cb > Len(StepCallbacks)
    /\ run' = [run EXCEPT
                 ![m].iteration = @ + 1,
                 ![m].yielded = IF m = "stream"
                                THEN Append(@, run[m].stepLog)
                                ELSE @,
                 ![m].pc = IF m = "stream" THEN "yield" ELSE "loop"]
    /\ RunFrame

\* the consumer asks the generator for the next value
Resume(m) ==
    /\ run[m].pc = "yield"
    /\ run' = [run EXCEPT ![m].pc = "loop"]
    /\ RunFrame

\* lines 490-495, 547-552: the final step log is pushed and
\* provideFinalAnswer (lines 370-396) is called
MaxIterationsReached(m) ==
    /\ run[m].pc = "max"
    /\ run' = [run EXCEPT ![m].logs = Append(@, MaxIterationsLog),
                          ![m].provided = @ + 1,
                          ![m].pc = "provide"]
    /\ RunFrame

\* lines 495-499, 552-555: the answer provideFinalAnswer resolves with is
\* stored; then the duration is computed from stepStartTime
FinalAnswerProvided(m) ==
    /\ run[m].pc = "provide"
    /\ LET r == run[m]
           stored == [r EXCEPT !.finalAnswer = "provided",
                               !.logs[Len(r.logs)].actionOutput = "provided"]
       IN  run' = [run EXCEPT ![m] =
              IF StepStartTimeInScope(m)
              THEN [stored EXCEPT !.cb = 1, !.pc = "finalCallbacks"]
              ELSE [stored EXCEPT !.thrown = "ReferenceError", !.pc = "threw"]]
    /\ RunFrame

\* after the callbacks of the final step log, in streaming mode
\* yield finalStepLog  (line 503)
EndFinal(m) ==
    /\ run[m].pc = "finalCallbacks"
    /\ run[m].cb > Len(StepCallbacks)
    /\ run' = [run EXCEPT ![m].pc = "return"]
    /\ RunFrame

\* return / yield this.handleAgentOutputTypes(finalAnswer), which returns
\* its argument (lines 506, 561, 696-699)
Return(m) ==
    /\ run[m].pc = "return"
    /\ run' = [run EXCEPT
                 ![m].returned = run[m].finalAnswer,
                 ![m].yielded = IF m = "stream"
                                THEN Append(@, Log("answer", 0, "none",
                                                   run[m].finalAnswer))
                                ELSE @,
                 ![m].pc = "returned"]
    /\ RunFrame

NextRun ==
    \E m \in Modes :
        \/ Begin(m)
        \/ Loop(m)
        \/ Planning(m)
        \/ Step(m)
        \/ Finally(m)
        \/ Callback(m)
        \/ EndIteration(m)
        \/ Resume(m)
        \/ MaxIterationsReached(m)
        \/ FinalAnswerProvided(m)
        \/ EndFinal(m)
        \/ Return(m)

SpecRun == InitRun /\ [][NextRun]_vars

\* every awaited call of a run settles and the consumer of the generator
\* keeps asking: a run that can take a step takes it
SpecRunFair == SpecRun /\ WF_vars(NextRun)

----------------------------------------------------------------------------
(* Claims *)

\* the value the code of session s reads for  state.k
Reads(s, k) == ReadProp(StateTarget(s), k)

\* the step is a statement of the running code that writes or deletes state.k
CodeWrites(k) ==
    /\ pc = "running"
    /\ nStmts' = nStmts + 1
    /\ lastStmt'[1] \in { "set", "delete" }
    /\ lastStmt'[2] = k

\* the step is line 177 of a call on s whose additionalVariables hold k
MergeOverwrites(s, k) ==
    /\ pc' = "merged"
    /\ cur' = s
    /\ extraVars'[k] # Absent

\* the code of s and of t see one object as  state
SameStateObject(s, t) ==
    \/ s = t
    \/ ~StateIsSession(s) /\ ~StateIsSession(t)

\* C1: in every session, require(m) gives the module exactly when m is in the
\* session's authorized list, and otherwise fails with an InterpreterError
\* whose message names m and lists the whole authorized list.
C1_RequireIffAuthorized ==
    (lastStmt[1] = "require") =>
        IF Includes(authorizedImports[cur], lastStmt[2])
        THEN pc # "threw" /\ completion = Module(lastStmt[2])
        ELSE /\ pc = "threw"
             /\ error = InterpreterError(
                            DeniedMessage(lastStmt[2], authorizedImports[cur]))

\* C2 as stated: in a session whose code sees this.state as state, a value
\* the code has just stored under any state key k is what the code reads
\* under k once the call has returned.
C2_StoredValueSurvivesReturn ==
    [][(/\ pc = "running"
        /\ StateIsSession(cur)
        /\ lastStmt[1] = "set"
        /\ pc' = "returned")
          => Reads(cur, lastStmt[2])' = Num(lastStmt[3])]_vars

\* C2 amended: the value the code of a session reads under a state key other
\* than printOutputs changes only when code that sees the same state object
\* writes or deletes that key, or when the additionalVariables of a call on
\* the session hold it; no other step of any call resets it.
C2_NoImplicitReset ==
    [][\A s \in Sessions : \A k \in Keys \ {"printOutputs"} :
          (Reads(s, k)' # Reads(s, k))
             => \/ CodeWrites(k) /\ SameStateObject(s, cur)
                \/ MergeOverwrites(s, k)]_vars

\* C2 witness: the first statement of a call reads under x the value 1, which
\* only the code of an earlier call can have stored.
C2_Witness ==
    /\ pc = "running"
    /\ nStmts = 1
    /\ lastStmt = <<"get", "x">>
    /\ completion = Num("1")
    /\ StateIsSession(cur)

\* C3: a script that loops is aborted once the 5000 ms budget and an
\* overshoot of a second have passed.
C3_LoopAbortedAfterBudget ==
    (pc = "looping") => elapsed <= SCRIPT_TIMEOUT + 1

\* C4: every failure of __call__ reaches the caller as an InterpreterError, and
\* the InterpreterError of a denied import arrives with its own message.
C4_OnlyInterpreterError ==
    (pc = "threw") =>
        /\ error[1] = "InterpreterError"
        /\ (/\ lastStmt[1] = "require"
            /\ Sandbox(cur)["require"] = Gate
            /\ ~Includes(authorizedImports[cur], lastStmt[2]))
              => error = InterpreterError(
                             DeniedMessage(lastStmt[2], authorizedImports[cur]))

\* C5: no step of a call on one session changes the value that the code of
\* the other session reads for any state key.
C5_SessionsIsolated ==
    [][\A t \in Sessions : (cur' # t) =>
          \A k \in Keys : Reads(t, k)' = Reads(t, k)]_vars

\* C6: after line 177 and before any code has run, every key of
\* additionalVariables holds the value given there and every other key of
\* this.state holds what it held before the call.
C6_MergeIsRightBiased ==
    (pc = "merged") =>
        /\ nStmts = 0
        /\ \A k \in Keys :
              IF extraVars[k] # Absent
              THEN state[cur][k] = extraVars[k]
              ELSE state[cur][k] = stateBefore[k]

\* C6 witness: a merge that overwrites x, which the state held, and keeps
\* printOutputs, which additionalVariables do not hold.
C6_Witness ==
    /\ pc = "merged"
    /\ stateBefore["x"] = Num("1")
    /\ extraVars["x"] = Num("3")
    /\ state[cur]["x"] = Num("3")
    /\ extraVars["printOutputs"] = Absent
    /\ stateBefore["printOutputs"] = Str(PrintText)
    /\ state[cur]["printOutputs"] = Str(PrintText)

\* C7: the logs a successful call returns are the text the code printed during
\* the call, truncated with the cap MAX_LEN_OUTPUT, and empty when it printed
\* nothing.
C7_LogsArePrintedText ==
    (pc = "returned") => logs = Str(truncateContent(output, MAX_LEN_OUTPUT))

\* the value of the expression statement a successful call evaluated last
ValueOfLastExpr ==
    CASE lastExpr = None -> Undefined
      [] lastExpr[1] = "lit" -> Num(lastExpr[2])
      [] lastExpr[1] = "print" -> Undefined
      [] lastExpr[1] = "set" -> Num(lastExpr[3])
      [] lastExpr[1] = "delete" -> True
      [] lastExpr[1] = "get" -> Reads(cur, lastExpr[2])
      [] lastExpr[1] = "require" ->
           IF toolsGiven[cur]["require"] # Absent
           THEN ToolOutput("require")
           ELSE Module(lastExpr[2])
      [] lastExpr[1] = "call" ->
           IF lastExpr[2] \in BaseToolNames
           THEN Str(<<"P", "a", "r", "i", "s">>)
           ELSE ToolOutput(lastExpr[2])

\* C8: the result of a successful call is the value of the last expression
\* statement of the code (undefined when it has none), whatever it printed.
\* A read of printOutputs is left out: line 130 rewrites that key before the
\* call returns.
C8_ResultIsCompletionValue ==
    (pc = "returned" /\ lastExpr # <<"get", "printOutputs">>)
        => result = ValueOfLastExpr

\* C8 witness: console.log('hi'); 42 has returned 42 and the log hi.
C8_Witness ==
    /\ pc = "returned"
    /\ nStmts = 2
    /\ lastExpr = <<"lit", "42">>
    /\ output = PrintText
    /\ result = Num("42")
    /\ logs = Str(PrintText)

MarkerCount(text, marker) ==
    Cardinality({ i \in 1..Len(text) :
                    /\ i + Len(marker) - 1 <= Len(text)
                    /\ SubSeq(text, i, i + Len(marker) - 1) = marker })

\* C10: truncateContent returns a text no longer than the cap unchanged; a
\* longer one it returns as its first cap/2 characters, one elision marker
\* and its last cap/2 characters, of length at most the cap plus the marker.
C10_TruncateContentShape ==
    tcDone =>
        LET half == tcMaxLength \div 2
            marker == TruncationMarker(tcMaxLength)
            n == Len(tcResult)
        IN  IF Len(tcContent) <= tcMaxLength
            THEN tcResult = tcContent
            ELSE /\ n <= tcMaxLength + Len(marker)
                 /\ SubSeq(tcResult, 1, half) = SubSeq(tcContent, 1, half)
                 /\ SubSeq(tcResult, n - half + 1, n)
                      = SubSeq(tcContent, Len(tcContent) - half + 1, Len(tcContent))
                 /\ MarkerCount(tcResult, marker) = 1

\* the set of the elements of a list
Elements(seq) == { seq[i] : i \in 1..Len(seq) }

\* C11: the authorized list of a constructed session holds exactly the
\* modules of the base list and of additionalAuthorizedImports, each once;
\* every module of the base list is in it.
C11_AuthorizedIsDedupedUnion ==
    \A s \in Sessions : ~Unconstructed(s) =>
        LET a == authorizedImports[s]
        IN  /\ Elements(a) = Elements(BASE_BUILTIN_MODULES)
                                \cup Elements(additionalGiven[s])
            /\ \A i, j \in 1..Len(a) : a[i] = a[j] => i = j
            /\ \A i \in 1..Len(BASE_BUILTIN_MODULES) :
                  Includes(a, BASE_BUILTIN_MODULES[i])

\* C11 witness: a session constructed with additions that repeat fs and
\* repeat path of the base list holds the ten base modules and fs.
C11_Witness ==
    /\ ~Unconstructed("A")
    /\ additionalGiven["A"] = <<"fs", "path", "fs">>
    /\ authorizedImports["A"] = Append(BASE_BUILTIN_MODULES, "fs")

\* C12: the step in which a call fails rolls nothing back: every key the
\* session state held before it (the merged additionalVariables and what
\* the code stored) is what the code of the session reads afterwards.
C12_FailureKeepsState ==
    [][(pc' = "threw")
          => /\ state' = state
             /\ \A k \in Keys : Reads(cur, k)' = ReadProp(state[cur], k)]_vars

\* C13: whatever makes evaluateCode fail (a syntax error, a denied import, a
\* value the code throws, null included), the value that leaves evaluateCode
\* is an InterpreterError.
C13_EvaluateCodeThrowsInterpreterError ==
    (pc = "threw") => evalThrown[1] = "InterpreterError"

\* C14: after any sequence of calls the authorized list and the tool
\* bindings of every session are what the constructor computed from its
\* arguments.
C14_ConstructorFieldsUnchanged ==
    \A s \in Sessions :
        /\ authorizedImports[s] = AuthorizedImportsOf(additionalGiven[s])
        /\ staticTools[s] = StaticToolsOf(toolsGiven[s])
        /\ customTools[s] = NoBindings

\* C15: JSON.parse('7'), evaluated first in a call of any session, gives 7
\* whatever the code of earlier calls did.
C15_BuiltinsUnaffectedByEarlierCalls ==
    (lastStmt = <<"parse">> /\ nStmts = 1) => completion = Num("7")

\* C16: a global that the code of an earlier call defined without the state
\* object is not defined in a later call: reading g first in a call fails.
C16_GlobalsNotDefinedLater ==
    (lastStmt = <<"readGlobal">> /\ nStmts = 1) => pc = "threw"

C18_GateCapturerStateNotReplaced ==
    (pc = "running")
        => /\ Sandbox(cur)["require"] = Gate
           /\ Sandbox(cur)["console"] = Capturer
           /\ Sandbox(cur)["state"] = StateObj

\* C19: code run by a CodeAgent that calls, by its name, a tool of the
\* agent's toolbox or one of its managed agents reaches that tool or agent:
\* the call does not fail for want of a callable of that name.
C19_AgentToolsAreCallable ==
    (/\ lastStmt[1] = "call"
     /\ lastStmt[2] \in agentToolbox \cup agentManaged)
        => /\ pc # "threw"
           /\ Sandbox("A")[lastStmt[2]] # Absent

\* C20: for a class the validation can parse, the constructor is reported
\* exactly when it declares one or more parameters.
C20_CtorReportedIffParams ==
    (vDone /\ vNamed)
        => (<<"additional args in constructor">> \in vErrors
                <=> Len(vParams) >= 1)

\* the tool methods of a class body: its members of kind "method"
ToolMethods(body) ==
    { body[i] : i \in { j \in 1..Len(body) :
        body[j].node = "MethodDefinition" /\ body[j].kind = "method" } }

\* the static fields of a class body
StaticFields(body) ==
    { body[i] : i \in { j \in 1..Len(body) :
        body[j].node = "PropertyDefinition" /\ body[j].static } }

\* the names a method refers to in expression position
Referenced(m) ==
    { m.body[i].name : i \in { j \in 1..Len(m.body) :
        m.body[j].type = "Identifier" } }

\* the names a method may use: its parameters in whatever form, the class's
\* static attributes, its local declarations, the module names and the
\* built-in names
AllowedNames(body, m) ==
    { m.params[i].name : i \in 1..Len(m.params) }
    \cup { f.name : f \in StaticFields(body) }
    \cup { m.body[i].name : i \in { j \in 1..Len(m.body) :
            m.body[j].type = "VariableDeclaration" } }
    \cup UTILS_BASE_BUILTIN_MODULES
    \cup BUILTIN_NAMES

\* the validation reports name n as undefined in method m
ReportedUndefined(m, n) == <<"Name is undefined", m.name, n>> \in vErrors

\* the walk over the class body ended in an exception
WalkAborted == <<"Failed to parse class">> \in vErrors

C22_NoFalseViolation ==
    (/\ vDone
     /\ \A m \in ToolMethods(vBody) :
            Referenced(m) \subseteq AllowedNames(vBody, m))
        => \A e \in vErrors : e[1] # "Name is undefined"

\* an initializer that is a literal, or an array or object composed
\* recursively only of literals
RECURSIVE ComposedOfLiterals(_)
ComposedOfLiterals(node) ==
    \/ node.type = "Literal"
    \/ /\ node.type \in { "ArrayExpression", "ObjectExpression" }
       /\ \A i \in 1..Len(node.elements) :
            ComposedOfLiterals(node.elements[i])

\* the validation reports the attribute as complex
ReportedComplex(name) ==
    \E e \in vErrors :
        /\ e[1] = "Complex attributes"
        /\ \E i \in 2..Len(e) : e[i] = name

\* C23: a static attribute is reported exactly when it has an initializer
\* that is not a literal nor an array or object composed only of literals.
C23_ComplexIffNotLiteral ==
    vDone =>
        \A f \in StaticFields(vBody) :
            ReportedComplex(f.name)
                <=> (f.value # NullNode /\ ~ComposedOfLiterals(f.value))

\* the class bodies that declare the same members in another order
Reorderings(body) ==
    { [i \in 1..Len(body) |-> body[p[i]]] :
        p \in Permutations(1..Len(body)) }

\* C27: the validation of a class collects the same errors for every order
\* of the class's members.
C27_OrderIndependent ==
    vDone =>
        \A body \in Reorderings(vBody) :
            vErrors = ValidationErrors(vParams, vNamed, body)

\* C24: truncating the result of truncateContent again with the same cap
\* returns it unchanged.
C24_TruncateIdempotent == tcAgainDone => tcAgain = tcResult

C26_FailedCallKeepsPrintOutputs ==
    [][/\ (/\ pc \in { "merged", "running", "looping" }
           /\ pc' # "returned"
           /\ ~CodeWrites("printOutputs"))
          => state'[cur]["printOutputs"] = state[cur]["printOutputs"]
       /\ (pc' = "threw")
          => /\ result' = None
             /\ logs' = None
             /\ Reads(cur, "printOutputs")'
                  = ReadProp(state'[cur], "printOutputs")]_vars

\* the iterations in which step returns an answer
AnswerIterations ==
    { i \in 1..agent.maxIterations : agent.outcomes[i] = "answer" }

\* the log entries of kind step, in order
IsStepLog(l) == l.kind = "step"
IsMaxLog(l) == l.kind = "max"
StepLogs(m) == SelectSeq(run[m].logs, IsStepLog)

\* what directRun has done so far is within the claim
DirectRunBounded ==
    LET r == run["direct"]
    IN  /\ r.steps <= agent.maxIterations
        /\ \A i \in AnswerIterations : r.iteration <= i
        /\ (r.pc = "returned") =>
              IF AnswerIterations # {}
              THEN /\ r.returned = "answer"
                   /\ r.steps <= r.iteration
                   /\ \A i \in AnswerIterations : r.iteration <= i
                   /\ r.iteration \in AnswerIterations
                   /\ r.provided = 0
                   /\ Len(SelectSeq(r.logs, IsMaxLog)) = 0
              ELSE /\ r.iteration = agent.maxIterations
                   /\ r.provided = 1
                   /\ Len(SelectSeq(r.logs, IsMaxLog)) = 1
                   /\ r.logs[Len(r.logs)].error = "AgentMaxIterationsError"
                   /\ r.returned = "provided"

BetweenIterations(m) ==
    run[m].pc \notin { "idle", "try", "step", "finally", "callbacks" }

\* the step log the iteration numbered i of a run leaves
ExpectedStepLog(i) ==
    Log("step", i,
        IF agent.outcomes[i + 1] \in { "throws", "planThrows" }
        THEN "Error" ELSE "none",
        "none")

C30_StreamEqualsDirect ==
    (Ended("direct") /\ Ended("stream")) =>
        LET d == run["direct"]
            t == run["stream"]
        IN  /\ d.pc = "returned"
            /\ t.pc = "returned"
            /\ t.logs = d.logs
            /\ Len(t.calls) = Len(d.calls)
            /\ t.yielded # <<>>
            /\ t.yielded[Len(t.yielded)].actionOutput = d.returned

====
